---------------------------- MODULE Spec2Model ----------------------------
(***************************************************************************)
(* GamesParser: the delivery pipeline of NewsMonitor (main.py), the        *)
(* retrying channel client TelegramNewsBot (src/bot/bot.py) and the dedupe *)
(* store PostStorage (src/storage/storage.py).                             *)
(*                                                                         *)
(* Time.  The bot compares datetime.now() with two stored timestamps.  The *)
(* model keeps the age of _last_successful_request in seconds, saturating  *)
(* at _connection_error_window (all the code asks is "age < window"), and  *)
(* the age of _last_rate_limit as "none" / "recent" / "elapsed".  A sleep  *)
(* of d seconds adds d to the first age; transport calls take no time.     *)
(*                                                                         *)
(* Environment.  env fixes, for one run, the posts the collectors can      *)
(* return, the size of a fetched batch and how many transport and file     *)
(* faults may happen.  Spec lets any iteration of any call fail in any     *)
(* way; SpecBatch has more posts per batch and lets the faults hit one     *)
(* send_message call, all of one kind.  SpecIO adds failing file writes    *)
(* and SpecShutdown the cancellation of the monitor's task.                *)
(* SpecRun and SpecFlakyRun are the monitor left running (no restart)     *)
(* under weak fairness of its steps, and SpecDegraded is a bot built with  *)
(* a short retry_delay, whose backoff fits into the error window.          *)
(*                                                                         *)
(* Three more specifications drive parts of the code directly: SpecStorage *)
(* the public methods of PostStorage, SpecSendNewPosts the bot's own batch *)
(* sender send_new_posts, and SpecDelay the two delay functions.           *)
(***************************************************************************)
EXTENDS Integers, Sequences, FiniteSets, Bags, TLC

\* ----------------------------------------------------------------- bounds
MaxBatch == 3       \* posts in one fetched batch (SpecBatch)
MaxFetch == 2       \* posts in one fetched batch (Spec)
MaxFaults == 5      \* transport faults in one process run
MaxIoFaults == 2    \* file faults in one process run (SpecIO)
MaxAttempt == 10    \* largest attempt index a delay is computed for (SpecDelay)
MaxRateLimited == 3 \* rate-limited delay computations in one run (SpecDelay, SpecSendNewPosts)

\* ------------------------------------------------------- program constants
max_retries == 5
base_delay == 30
short_retry_delay == 1
min_delay == 20
max_delay == 300
rate_limit_multiplier == 2
backoff_factor == 2
jitter_range == 5
max_connection_errors == 10
connection_error_window == 300
rate_limit_threshold == 3
rate_limit_wait_cap == 600
rate_limit_wait_step == 60
connection_wait_cap == 300
connection_wait_step == 30
retry_after_margin == 5
inter_item_sleep == 5
CHECK_INTERVAL == 300
datetime_min == 0
max_message_length == 4000
handler_base_delay == 1
handler_backoff_factor == 2
handler_jitter_halves == 1
handler_min_delay == 1
handler_max_delay == 60

\* ------------------------------------------------------------ input sets
Ids == {"A", "B", "C"}
JitterValues == {0 - jitter_range, jitter_range}
JitterRange == (0 - jitter_range) .. jitter_range
HandlerJitterRange == (0 - handler_jitter_halves) .. handler_jitter_halves
RetryAfterValues == {10}

Min(a, b) == IF a < b THEN a ELSE b
Max(a, b) == IF a > b THEN a ELSE b

RECURSIVE Pow(_, _)
Pow(b, e) == IF e = 0 THEN 1 ELSE b * Pow(b, e - 1)

\* ---------------------------------------------------------------- state
VARIABLES
  processed_posts,    \* PostStorage.processed_posts
  db_file,            \* the file at db_path: absent, corrupt, or valid with its id list
  pc,                 \* NewsMonitor: "fetch" | "loop" | "send" | "wait"
  new_posts,          \* the filtered and sorted list the for loop walks
  idx,                \* position of the for loop in new_posts
  attempt,            \* _send_with_retry: the loop variable
  last_error,         \* _send_with_retry: last_error
  connection_errors,  \* TelegramNewsBot._connection_errors
  rate_limit_errors,  \* TelegramNewsBot._rate_limit_errors
  since_success,      \* now - _last_successful_request, saturating
  last_rate_limit,    \* _last_rate_limit: "none" | "recent" | "elapsed"
  faults,             \* transport faults the environment may still produce
  io_faults,          \* file faults the environment may still produce
  env,                \* the environment of the run: sources, batch size, fault budgets
  attempted,          \* history: posts send_message was called for in this cycle
  delivered,          \* history: ids send_message returned True for in this process
  loaded,             \* history: the set _load_data read at construction
  flush_failed,       \* history: some _save_data of this process failed
  last_mark,          \* history: the latest mark_as_processed, its flush and its answer
  rl_signals,         \* history: RetryAfter responses inside the rate-limit window
  call,               \* history: the current / last _send_with_retry call
  processed_ids,      \* TelegramNewsBot._processed_ids
  posts,              \* PostStorage.posts: stored post id -> its created_at
  api,                \* history: the latest direct call of a PostStorage method
  calc                \* history: the latest delay computation, its inputs and result

vars == <<processed_posts, db_file, pc, new_posts, idx, attempt, last_error,
          connection_errors, rate_limit_errors, since_success, last_rate_limit,
          faults, io_faults, env, attempted, delivered, loaded, flush_failed, last_mark,
          rl_signals, call, processed_ids, posts, api, calc>>

\* What the monitor never changes.
env_vars == <<env, calc, api, processed_ids>>
storage_vars == <<processed_posts, posts, db_file, delivered, flush_failed, last_mark,
                  io_faults>>
loop_vars == <<new_posts, idx, attempted>>

\* ------------------------------------------------------------ PostStorage
\* The id list of the file is kept up to its order, as a bag: json.load gives
\* a list, set(...) forgets order and repetition.  A missing file leaves the
\* sets empty and an unreadable one resets them.
LoadData(file) ==
  IF file.state = "valid" THEN BagToSet(file.ids) ELSE {}

\* self.posts after _load_data: the "posts" object of the file.
\* Post.created_at: None, or a day with or without tzinfo.
NoDate == [set |-> FALSE, day |-> 0, aware |-> FALSE]

CreatedAt(day, aware) == [set |-> TRUE, day |-> day, aware |-> aware]

NoPosts == [id \in {} |-> NoDate]

LoadPosts(file) ==
  IF file.state = "valid" THEN file.posts ELSE NoPosts

\* Variant: the list is written with every id twice.
SerialiseTwice(S) == SetToBag(S) (+) SetToBag(S)

\* list(self.processed_posts): every member once, in some iteration order.
Serialise(S) == SetToBag(S)

\* Variant: _save_data reports success but the file keeps its old content.
SaveDataLost(file, S, P, may_fail) == {[file |-> file, ok |-> TRUE]}

\* What _save_data can leave behind: the full set written, or (the error is
\* caught and logged) the old file when open() fails, or a truncated file
\* when the write fails after open(..., "w").
SaveData(file, S, P, may_fail) ==
  {[file |-> [state |-> "valid", ids |-> Serialise(S), posts |-> P], ok |-> TRUE]}
  \cup (IF may_fail
        THEN {[file |-> file, ok |-> FALSE],
              [file |-> [state |-> "corrupt", ids |-> EmptyBag, posts |-> NoPosts],
               ok |-> FALSE]}
        ELSE {})

AbsentFile == [state |-> "absent", ids |-> EmptyBag, posts |-> NoPosts]

NoApi == [op |-> "", id |-> "", calls |-> 0, cutoff |-> 0, before |-> {}, stored |-> NoPosts]

\* Variant: the membership test never finds an id.
is_processedNever(post_id) == FALSE

is_processed(post_id) == post_id \in processed_posts

NoMark == [flushed |-> "none", answer |-> "none"]

\* What the caller of mark_as_processed gets: _save_data catches and logs its
\* own errors, so the method returns None whether or not the file was written.
MarkAnswer(ok) == "None"

\* Variant: a failed flush takes the id out of the set again.
mark_as_processedRollsBack(post_id) ==
  \E out \in SaveData(db_file, processed_posts \cup {post_id}, posts, io_faults > 0) :
    /\ processed_posts' = IF out.ok THEN processed_posts \cup {post_id} ELSE processed_posts
    /\ posts' = posts
    /\ db_file' = out.file
    /\ flush_failed' = (flush_failed \/ ~out.ok)
    /\ last_mark' = [flushed |-> IF out.ok THEN "ok" ELSE "failed", answer |-> MarkAnswer(out.ok)]
    /\ io_faults' = IF out.ok THEN io_faults ELSE io_faults - 1

\* processed_posts.add(post_id); _save_data().  No error leaves the method.
mark_as_processed(post_id) ==
  \E out \in SaveData(db_file, processed_posts \cup {post_id}, posts, io_faults > 0) :
    /\ processed_posts' = processed_posts \cup {post_id}
    /\ posts' = posts
    /\ db_file' = out.file
    /\ flush_failed' = (flush_failed \/ ~out.ok)
    /\ last_mark' = [flushed |-> IF out.ok THEN "ok" ELSE "failed", answer |-> MarkAnswer(out.ok)]
    /\ io_faults' = IF out.ok THEN io_faults ELSE io_faults - 1

\* ---------------------------------------------------------------- sorting
\* key=lambda x: x.metadata.date if x.metadata and x.metadata.date else
\* datetime.min.replace(tzinfo=<local>): a post without a date gets the
\* smallest aware datetime.
SortKey(x) ==
  IF x.post.date = 0 THEN [t |-> datetime_min, aware |-> TRUE]
  ELSE [t |-> x.post.date, aware |-> x.post.aware]

\* Comparing an offset-naive with an offset-aware datetime raises TypeError.
SortRaises(s) ==
  \E i, j \in 1 .. Len(s) : SortKey(s[i]).aware # SortKey(s[j]).aware

RECURSIVE InsertSorted(_, _)
InsertSorted(s, p) ==
  IF s = <<>> THEN <<p>>
  ELSE IF SortKey(p).t < SortKey(Head(s)).t THEN <<p>> \o s
  ELSE <<Head(s)>> \o InsertSorted(Tail(s), p)

\* Variant: the list is walked as fetched.
SortPostsSkipped(s) == s

\* list.sort(key=...): ascending and stable.
RECURSIVE SortPosts(_)
SortPosts(s) ==
  IF s = <<>> THEN <<>>
  ELSE InsertSorted(SortPosts(SubSeq(s, 1, Len(s) - 1)), s[Len(s)])

\* [post for post in posts if not self.storage.is_processed(post.id)]
RECURSIVE FilterNew(_)
FilterNew(s) ==
  IF s = <<>> THEN <<>>
  ELSE (IF is_processed(Head(s).post.id) THEN <<>> ELSE <<Head(s)>>) \o FilterNew(Tail(s))

\* --------------------------------------------------------- TelegramNewsBot
\* Variant: the delay is returned without the max(min_delay, min(.., max_delay)).
CalculateDelayUnclamped(a, is_rate_limit, j) ==
  LET base == IF is_rate_limit THEN env.retry_delay * rate_limit_multiplier
              ELSE env.retry_delay
  IN  base * Pow(backoff_factor, a) + j

\* _calculate_delay with the bot's retry_delay and the jitter drawn as j;
\* its effect on _rate_limit_errors is CalculateDelayCount.
CalculateDelay(a, is_rate_limit, j) ==
  LET base == IF is_rate_limit THEN env.retry_delay * rate_limit_multiplier
              ELSE env.retry_delay
      delay == base * Pow(backoff_factor, a) + j
  IN  Max(min_delay, Min(delay, max_delay))

CalculateDelayCount(is_rate_limit) ==
  IF is_rate_limit THEN rate_limit_errors + 1 ELSE rate_limit_errors

\* RetryHandler.calculate_delay with the DEFAULTS, in half seconds (the
\* jitter range is 0.5 s): j2 is twice the jitter, the result twice the delay.
HandlerDelay2(a, j2) ==
  LET delay2 == 2 * handler_base_delay * Pow(handler_backoff_factor, a) + j2
  IN  Max(2 * handler_min_delay, Min(delay2, 2 * handler_max_delay))

NoCalc == [fn |-> "", attempt |-> 0, is_rate_limit |-> FALSE, jitter |-> 0, delay |-> 0]

\* asyncio.sleep(d) as seen by the age of _last_successful_request.
Slept(age, d) == Min(connection_error_window, age + d)

\* _check_rate_limit sleeps and answers False.
RateLimitCooldown ==
  /\ last_rate_limit # "none"
  /\ rate_limit_errors >= rate_limit_threshold
  /\ last_rate_limit = "recent"

RateLimitWait == Min(rate_limit_wait_cap, rate_limit_errors * rate_limit_wait_step)

\* _check_connection takes its pause branch.
ConnectionPause ==
  /\ connection_errors >= max_connection_errors
  /\ since_success < connection_error_window

ConnectionWait == Min(connection_wait_cap, connection_errors * connection_wait_step)

\* The history of one _send_with_retry call: how often the method was
\* invoked, how many iterations ended before invoking it, the backoff sleeps,
\* the ordinary errors, the outcome of the latest iteration, the rate-limit
\* responses inside the window when that iteration began, and the answer.
\* method is the transport method send_message hands to _send_with_retry
\* and length the length of the text it passes along, whole, on every
\* invocation (as text=, or as the caption of the first image); accepted
\* says that the transport has taken the message and rate_limited counts
\* the RetryAfter answers of the call.
NoCall ==
  [id |-> "", invocations |-> 0, skipped |-> 0, sleeps |-> 0, ordinary |-> 0,
   kind |-> "start", signals |-> 0, wait |-> 0, result |-> "pending", raised |-> FALSE,
   method |-> "", length |-> 0, accepted |-> FALSE, rate_limited |-> 0]

NewCall(id) == [NoCall EXCEPT !.id = id]

\* send_message(text, images): the media group when images is not empty, else
\* the text; no transport method when no image URL survives _clean_url.
TransportMethod(images) ==
  IF images = "none" THEN "send_message"
  ELSE IF images = "valid" THEN "send_media_group"
  ELSE ""

SendMessageCall(post) ==
  [NewCall(post.id) EXCEPT !.method = TransportMethod(post.images), !.length = post.length]

Step(kind, invoked, nsleeps, wait) ==
  [call EXCEPT !.invocations = @ + (IF invoked THEN 1 ELSE 0),
               !.skipped = @ + (IF invoked THEN 0 ELSE 1),
               !.sleeps = @ + nsleeps,
               !.ordinary = @ + (IF kind \in {"NetworkError", "Exception"} THEN 1 ELSE 0),
               !.rate_limited = @ + (IF kind = "RetryAfter" THEN 1 ELSE 0),
               !.kind = kind,
               !.signals = rl_signals,
               !.wait = wait]

\* The environment: a transport fault of this kind may happen now.  In an
\* outage run the faults hit one send_message call and are of one kind.
FaultAllowed(kind) ==
  /\ faults > 0
  /\ env.outage => call.kind \in {"start", kind}

InLoop == pc = "send" /\ attempt < max_retries

\* Variant: a failed send ends the for loop (break instead of the next post).
AfterSendBreaks(success, age, f) ==
  /\ IF success
     THEN /\ mark_as_processed(call.id)
          /\ delivered' = delivered \cup {call.id}
     ELSE UNCHANGED storage_vars
  /\ faults' = IF env.outage /\ f < env.faults THEN 0 ELSE f
  /\ since_success' = Slept(age, inter_item_sleep)
  /\ idx' = IF success THEN idx + 1 ELSE Len(new_posts) + 1
  /\ pc' = "loop"
  /\ attempt' = 0
  /\ last_error' = "None"
  /\ UNCHANGED <<new_posts, attempted, loaded, env_vars>>

\* Variant: a failed send goes on to the next post without asyncio.sleep(5).
AfterSendNoSleep(success, age, f) ==
  /\ IF success
     THEN /\ mark_as_processed(call.id)
          /\ delivered' = delivered \cup {call.id}
     ELSE UNCHANGED storage_vars
  /\ faults' = IF env.outage /\ f < env.faults THEN 0 ELSE f
  /\ since_success' = IF success THEN Slept(age, inter_item_sleep) ELSE age
  /\ idx' = idx + 1
  /\ pc' = "loop"
  /\ attempt' = 0
  /\ last_error' = "None"
  /\ UNCHANGED <<new_posts, attempted, loaded, env_vars>>

\* What process_new_posts does once send_message has answered: mark the post
\* on success, log on failure, then asyncio.sleep(5) and the next post.
\* age: the age of _last_successful_request when send_message returns.
\* When send_new_posts is the caller, send_message returns into it.
AfterSend(success, age, f) ==
  IF env.entry = "send_new_posts"
  THEN /\ pc' = "returned"
       /\ faults' = IF env.outage /\ f < env.faults THEN 0 ELSE f
       /\ since_success' = age
       /\ attempt' = 0
       /\ last_error' = "None"
       /\ UNCHANGED <<storage_vars, loop_vars, loaded, env_vars>>
  ELSE /\ IF success
          THEN /\ mark_as_processed(call.id)
               /\ delivered' = delivered \cup {call.id}
          ELSE UNCHANGED storage_vars
       /\ faults' = IF env.outage /\ f < env.faults THEN 0 ELSE f
       /\ since_success' = Slept(age, inter_item_sleep)
       /\ idx' = idx + 1
       /\ pc' = "loop"
       /\ attempt' = 0
       /\ last_error' = "None"
       /\ UNCHANGED <<new_posts, attempted, loaded, env_vars>>

\* "continue": the next iteration of for attempt in range(self.max_retries).
Continue(age, f) ==
  /\ attempt' = attempt + 1
  /\ since_success' = age
  /\ faults' = f
  /\ pc' = "send"
  /\ UNCHANGED <<storage_vars, loop_vars, loaded, env_vars>>

\* _check_rate_limit answers False: the iteration ends after its cooldown sleep.
AttemptCooldown ==
  /\ InLoop
  /\ RateLimitCooldown
  /\ call' = Step("cooldown", FALSE, 1, RateLimitWait)
  /\ Continue(Slept(since_success, RateLimitWait), faults)
  /\ UNCHANGED <<last_error, connection_errors, rate_limit_errors, last_rate_limit, rl_signals>>

\* Variant: the pause leaves _connection_errors as it was.
AttemptPauseKeepsCount ==
  /\ InLoop
  /\ ~RateLimitCooldown
  /\ ConnectionPause
  /\ \E j \in JitterValues :
       /\ call' = Step("pause", FALSE, 2, ConnectionWait)
       /\ Continue(Slept(Slept(since_success, ConnectionWait),
                         CalculateDelay(attempt, FALSE, j)), faults)
  /\ rate_limit_errors' = CalculateDelayCount(FALSE)
  /\ UNCHANGED <<last_error, connection_errors, last_rate_limit, rl_signals>>

\* _check_connection pauses, resets the counter and answers False; the loop
\* then sleeps _calculate_delay(attempt) and continues.
AttemptPause ==
  /\ InLoop
  /\ ~RateLimitCooldown
  /\ ConnectionPause
  /\ \E j \in JitterValues :
       /\ call' = Step("pause", FALSE, 2, ConnectionWait)
       /\ Continue(Slept(Slept(since_success, ConnectionWait),
                         CalculateDelay(attempt, FALSE, j)), faults)
  /\ connection_errors' = 0
  /\ rate_limit_errors' = CalculateDelayCount(FALSE)
  /\ UNCHANGED <<last_error, last_rate_limit, rl_signals>>

\* Variant: a failing get_me() is not counted.
AttemptProbeFailsUncounted ==
  /\ InLoop
  /\ ~RateLimitCooldown
  /\ ~ConnectionPause
  /\ FaultAllowed("probe")
  /\ \E j \in JitterValues :
       /\ call' = Step("probe", FALSE, 1, 0)
       /\ Continue(Slept(since_success, CalculateDelay(attempt, FALSE, j)), faults - 1)
  /\ rate_limit_errors' = CalculateDelayCount(FALSE)
  /\ UNCHANGED <<last_error, connection_errors, last_rate_limit, rl_signals>>

\* bot.get_me() raises: _check_connection counts the error and answers False;
\* the loop sleeps _calculate_delay(attempt) and continues.
AttemptProbeFails ==
  /\ InLoop
  /\ ~RateLimitCooldown
  /\ ~ConnectionPause
  /\ FaultAllowed("probe")
  /\ \E j \in JitterValues :
       /\ call' = Step("probe", FALSE, 1, 0)
       /\ Continue(Slept(since_success, CalculateDelay(attempt, FALSE, j)), faults - 1)
  /\ connection_errors' = connection_errors + 1
  /\ rate_limit_errors' = CalculateDelayCount(FALSE)
  /\ UNCHANGED <<last_error, last_rate_limit, rl_signals>>

\* Both checks pass: get_me() has just succeeded and the method is invoked.
Invoke == InLoop /\ ~RateLimitCooldown /\ ~ConnectionPause

\* Variant: the truthy result is not returned; the loop backs off and goes on.
AttemptSucceedsFallsThrough ==
  /\ InLoop /\ ~RateLimitCooldown /\ ~ConnectionPause
  /\ \E j \in JitterValues :
       /\ call' = [Step("success", TRUE, 1, 0) EXCEPT !.result = "True"]
       /\ attempt' = attempt + 1
       /\ since_success' = Slept(0, CalculateDelay(attempt, FALSE, j))
  /\ pc' = "send"
  /\ connection_errors' = 0
  /\ rate_limit_errors' = 0
  /\ UNCHANGED <<storage_vars, loop_vars, loaded, env_vars, faults, last_error,
                 last_rate_limit, rl_signals>>

\* The method returns a truthy result: _send_with_retry returns it and
\* send_message returns True.
AttemptSucceeds ==
  /\ Invoke
  /\ call' = [Step("success", TRUE, 0, 0) EXCEPT !.result = "True", !.accepted = TRUE]
  /\ connection_errors' = 0
  /\ rate_limit_errors' = 0
  /\ AfterSend(TRUE, 0, faults)
  /\ UNCHANGED <<last_rate_limit, rl_signals>>

\* The method returns None: sleep _calculate_delay(attempt), next iteration.
AttemptReturnsNone ==
  /\ Invoke
  /\ FaultAllowed("none")
  /\ \E j \in JitterValues :
       /\ call' = Step("none", TRUE, 1, 0)
       /\ Continue(Slept(0, CalculateDelay(attempt, FALSE, j)), faults - 1)
  /\ connection_errors' = 0
  /\ rate_limit_errors' = CalculateDelayCount(FALSE)
  /\ UNCHANGED <<last_error, last_rate_limit, rl_signals>>

\* Variant: a RetryAfter answer does not use up an iteration of the loop.
AttemptRetryAfterFree ==
  /\ Invoke
  /\ FaultAllowed("RetryAfter")
  /\ \E r \in RetryAfterValues :
       /\ call' = Step("RetryAfter", TRUE, 1, r + retry_after_margin)
       /\ since_success' = Slept(0, r + retry_after_margin)
  /\ attempt' = attempt
  /\ faults' = faults - 1
  /\ pc' = "send"
  /\ last_error' = "RetryAfter"
  /\ last_rate_limit' = "recent"
  /\ rl_signals' = Min(rate_limit_threshold, rl_signals + 1)
  /\ connection_errors' = 0
  /\ UNCHANGED <<storage_vars, loop_vars, loaded, env_vars, rate_limit_errors>>

\* except RetryAfter: remember the time, sleep retry_after + 5, continue.
AttemptRetryAfter ==
  /\ Invoke
  /\ FaultAllowed("RetryAfter")
  /\ \E r \in RetryAfterValues :
       /\ call' = Step("RetryAfter", TRUE, 1, r + retry_after_margin)
       /\ Continue(Slept(0, r + retry_after_margin), faults - 1)
  /\ last_error' = "RetryAfter"
  /\ last_rate_limit' = "recent"
  /\ rl_signals' = Min(rate_limit_threshold, rl_signals + 1)
  /\ connection_errors' = 0
  /\ UNCHANGED rate_limit_errors

\* except NetworkError / except Exception: count the error; re-raise on the
\* last attempt (send_message then returns False), else back off and continue.
OrdinaryError(kind) ==
  /\ Invoke
  /\ FaultAllowed(kind)
  /\ connection_errors' = 0 + 1
  /\ IF attempt = max_retries - 1
     THEN /\ call' = [Step(kind, TRUE, 0, 0) EXCEPT !.result = "False", !.raised = TRUE]
          /\ AfterSend(FALSE, 0, faults - 1)
          /\ UNCHANGED rate_limit_errors
     ELSE /\ \E j \in JitterValues :
               /\ call' = Step(kind, TRUE, 1, 0)
               /\ Continue(Slept(0, CalculateDelay(attempt, FALSE, j)), faults - 1)
          /\ last_error' = kind
          /\ rate_limit_errors' = CalculateDelayCount(FALSE)
  /\ UNCHANGED <<last_rate_limit, rl_signals>>

AttemptNetworkError == OrdinaryError("NetworkError")

AttemptException == OrdinaryError("Exception")

\* Variant: TelegramError is handled like NetworkError (back off, go on).
AttemptTelegramErrorRetried ==
  /\ InLoop /\ ~RateLimitCooldown /\ ~ConnectionPause
  /\ FaultAllowed("TelegramError")
  /\ attempt < max_retries - 1
  /\ \E j \in JitterValues :
       /\ call' = Step("TelegramError", TRUE, 1, 0)
       /\ attempt' = attempt + 1
       /\ since_success' = Slept(0, CalculateDelay(attempt, FALSE, j))
  /\ faults' = faults - 1
  /\ pc' = "send"
  /\ connection_errors' = 0 + 1
  /\ last_error' = "TelegramError"
  /\ UNCHANGED <<storage_vars, loop_vars, loaded, env_vars, rate_limit_errors,
                 last_rate_limit, rl_signals>>

\* except TelegramError: raise.  send_message logs it and returns False.
AttemptTelegramError ==
  /\ Invoke
  /\ FaultAllowed("TelegramError")
  /\ call' = [Step("TelegramError", TRUE, 0, 0) EXCEPT !.result = "False", !.raised = TRUE]
  /\ connection_errors' = 0
  /\ AfterSend(FALSE, 0, faults - 1)
  /\ UNCHANGED <<rate_limit_errors, last_rate_limit, rl_signals>>

\* Variant: the error that ends _send_with_retry leaves process_new_posts and
\* run(): the monitor stops.
RetriesExhaustedStopsRun ==
  /\ pc = "send"
  /\ attempt = max_retries
  /\ pc' = "stopped"
  /\ call' = [call EXCEPT !.result = "False", !.raised = (last_error # "None")]
  /\ UNCHANGED <<storage_vars, loop_vars, loaded, faults, env_vars, since_success, attempt,
                 last_error, connection_errors, rate_limit_errors, last_rate_limit,
                 rl_signals>>

\* The loop ran out: raise last_error if there is one, else return None;
\* either way send_message returns False.
RetriesExhausted ==
  /\ pc = "send"
  /\ attempt = max_retries
  /\ call' = [call EXCEPT !.result = "False", !.raised = (last_error # "None")]
  /\ AfterSend(FALSE, since_success, faults)
  /\ UNCHANGED <<connection_errors, rate_limit_errors, last_rate_limit, rl_signals>>

\* ------------------------------------------------------------- NewsMonitor
Post(id, date, aware, images, length) ==
  [id |-> id, date |-> date, aware |-> aware, images |-> images, length |-> length]

\* The batches fetch_all_posts can return: up to env.batch posts of the
\* sources; pos is the place of the Post object in the returned list.
Batches ==
  UNION {{[i \in 1 .. n |-> [post |-> b[i], pos |-> i]] : b \in [1 .. n -> env.sources]}
         : n \in 0 .. env.batch}

bot_vars == <<attempt, last_error, connection_errors, rate_limit_errors,
              last_rate_limit, rl_signals, call>>

\* process_new_posts returns and run() sleeps CHECK_INTERVAL.  The
\* rate-limit window may run out while the monitor waits.
WaitForNextCheck ==
  /\ since_success' = Slept(since_success, CHECK_INTERVAL)
  /\ \E l \in (IF last_rate_limit = "recent" THEN {"recent", "elapsed"} ELSE {last_rate_limit}) :
       /\ last_rate_limit' = l
       /\ rl_signals' = IF l = "recent" THEN rl_signals ELSE 0
  /\ pc' = "fetch"
  /\ new_posts' = <<>>
  /\ attempted' = <<>>
  /\ idx' = 1
  /\ call' = NoCall
  /\ UNCHANGED <<storage_vars, loaded, faults, env_vars, attempt, last_error,
                 connection_errors, rate_limit_errors>>

\* fetch_all_posts returns nothing (no post, or a collector raised).
FetchNothing ==
  /\ pc = "fetch"
  /\ WaitForNextCheck

\* The sort raises TypeError: the outer except logs it, no post is sent.
FetchSortRaises ==
  /\ pc = "fetch"
  /\ \E batch \in Batches : batch # <<>> /\ SortRaises(FilterNew(batch))
  /\ WaitForNextCheck

\* posts fetched, filtered against the store and sorted.
FetchPosts ==
  /\ pc = "fetch"
  /\ \E batch \in Batches :
       /\ batch # <<>>
       /\ ~SortRaises(FilterNew(batch))
       /\ new_posts' = SortPosts(FilterNew(batch))
  /\ attempted' = <<>>
  /\ idx' = 1
  /\ pc' = "loop"
  /\ UNCHANGED <<storage_vars, loaded, faults, env_vars, since_success, bot_vars>>

Current == new_posts[idx]

\* The re-check at the head of the loop body: already processed, continue.
SkipProcessed ==
  /\ pc = "loop"
  /\ idx <= Len(new_posts)
  /\ is_processed(Current.post.id)
  /\ idx' = idx + 1
  /\ UNCHANGED <<storage_vars, loaded, faults, env_vars, new_posts,
                 attempted, pc, since_success, bot_vars>>

\* send_message is called; with images of which none survives _clean_url it
\* returns False at once, else it enters _send_with_retry.
StartSend ==
  /\ pc = "loop"
  /\ idx <= Len(new_posts)
  /\ ~is_processed(Current.post.id)
  /\ attempted' = Append(attempted, Current)
  /\ IF Current.post.images = "invalid"
     THEN /\ call' = [SendMessageCall(Current.post) EXCEPT !.result = "False"]
          /\ since_success' = Slept(since_success, inter_item_sleep)
          /\ idx' = idx + 1
          /\ pc' = "loop"
     ELSE /\ call' = SendMessageCall(Current.post)
          /\ pc' = "send"
          /\ UNCHANGED <<since_success, idx>>
  /\ UNCHANGED <<storage_vars, loaded, faults, env_vars, new_posts,
                 attempt, last_error, connection_errors, rate_limit_errors,
                 last_rate_limit, rl_signals>>

\* The for loop is done.
EndBatch ==
  /\ pc = "loop"
  /\ idx > Len(new_posts)
  /\ WaitForNextCheck

\* Construction: PostStorage.__init__ loads the file, TelegramNewsBot.__init__
\* starts with fresh health counters.
InitProcess(file) ==
  /\ db_file = file
  /\ processed_posts = LoadData(file)
  /\ posts = LoadPosts(file)
  /\ api = NoApi
  /\ loaded = LoadData(file)
  /\ delivered = {}
  /\ flush_failed = FALSE
  /\ last_mark = NoMark
  /\ pc = "fetch"
  /\ new_posts = <<>>
  /\ idx = 1
  /\ attempted = <<>>
  /\ attempt = 0
  /\ last_error = "None"
  /\ connection_errors = 0
  /\ rate_limit_errors = 0
  /\ since_success = 0
  /\ last_rate_limit = "none"
  /\ rl_signals = 0
  /\ call = NoCall
  /\ processed_ids = {}
  /\ calc = NoCalc

\* The files a run can start from: none, or what an earlier run wrote.
Files ==
  {AbsentFile}
  \cup {[state |-> "valid", ids |-> Serialise(S), posts |-> NoPosts] : S \in SUBSET Ids}

\* The process is stopped at any point and started again.
Restart ==
  /\ processed_posts' = LoadData(db_file)
  /\ posts' = LoadPosts(db_file)
  /\ loaded' = LoadData(db_file)
  /\ delivered' = {}
  /\ flush_failed' = FALSE
  /\ last_mark' = NoMark
  /\ pc' = "fetch"
  /\ new_posts' = <<>>
  /\ idx' = 1
  /\ attempted' = <<>>
  /\ attempt' = 0
  /\ last_error' = "None"
  /\ connection_errors' = 0
  /\ rate_limit_errors' = 0
  /\ since_success' = 0
  /\ last_rate_limit' = "none"
  /\ rl_signals' = 0
  /\ call' = NoCall
  /\ faults' = env.faults
  /\ io_faults' = env.io_faults
  /\ processed_ids' = {}
  /\ UNCHANGED <<db_file, env, calc, api>>

\* The steps of the monitor.  AttemptCooldown and AttemptPause are left out:
\* process_new_posts cannot reach them (_rate_limit_errors only grows in
\* send_new_posts, and ten probe failures in a row take more than
\* connection_error_window seconds of backoff).
Next ==
  \/ FetchNothing
  \/ FetchSortRaises
  \/ FetchPosts
  \/ SkipProcessed
  \/ StartSend
  \/ EndBatch
  \/ AttemptProbeFails
  \/ AttemptSucceeds
  \/ AttemptReturnsNone
  \/ AttemptRetryAfter
  \/ AttemptNetworkError
  \/ AttemptException
  \/ AttemptTelegramError
  \/ RetriesExhausted
  \/ Restart

\* A run: the file it starts from and its environment.
InitWith(files, environment) ==
  /\ \E file \in files : InitProcess(file)
  /\ env = environment
  /\ faults = environment.faults
  /\ io_faults = environment.io_faults

Environment(srcs, batch, budget, io_budget, outage) ==
  [sources |-> srcs, batch |-> batch, faults |-> budget, io_faults |-> io_budget,
   outage |-> outage, entry |-> "process_new_posts", attr |-> FALSE,
   retry_delay |-> base_delay]

\* A flaky transport: any iteration of any call may fail in any way.
Init ==
  InitWith(Files,
           Environment({Post("A", 1, TRUE, "none", 4100), Post("B", 2, TRUE, "valid", 100),
                        Post("B", 2, FALSE, "invalid", 100)},
                       MaxFetch, MaxFaults, 0, FALSE))

Spec == Init /\ [][Next]_vars

\* An outage: three posts in any order, with and without date.
InitBatch ==
  \E srcs \in {{Post("A", 3, TRUE, "none", 100), Post("B", 1, TRUE, "valid", 100),
                Post("C", 2, TRUE, "valid", 100)},
               {Post("A", 2, TRUE, "none", 100), Post("B", 0, TRUE, "none", 100),
                Post("C", 0, TRUE, "invalid", 100)},
               {Post("A", 1, TRUE, "none", 100), Post("B", 1, FALSE, "none", 100)}} :
    InitWith({AbsentFile},
             Environment(srcs, MaxBatch, MaxFaults, 0, TRUE))

SpecBatch == InitBatch /\ [][Next]_vars

\* The monitor on a disk that may fail: up to MaxIoFaults writes of a process
\* run go wrong.
InitIO ==
  InitWith({AbsentFile},
           Environment({Post("A", 1, TRUE, "none", 100), Post("B", 2, TRUE, "valid", 100),
                        Post("B", 2, FALSE, "invalid", 100)},
                       MaxFetch, MaxFaults, MaxIoFaults, TRUE))

SpecIO == InitIO /\ [][Next]_vars

\* ------------------------------------------------- the monitor left running
\* The steps of run() when nobody stops the process.
NextRun ==
  \/ FetchNothing
  \/ FetchSortRaises
  \/ FetchPosts
  \/ SkipProcessed
  \/ StartSend
  \/ EndBatch
  \/ AttemptProbeFails
  \/ AttemptSucceeds
  \/ AttemptReturnsNone
  \/ AttemptRetryAfter
  \/ AttemptNetworkError
  \/ AttemptException
  \/ AttemptTelegramError
  \/ RetriesExhausted

InitRun ==
  InitWith({AbsentFile},
           Environment({Post("A", 1, TRUE, "none", 100), Post("B", 2, TRUE, "valid", 100),
                        Post("B", 2, FALSE, "invalid", 100)},
                       MaxFetch, MaxFaults, MaxIoFaults, TRUE))

\* The event loop runs the one task of run(): every await returns, so a step
\* that can be taken is taken.
SpecRun == InitRun /\ [][NextRun]_vars /\ WF_vars(NextRun)

\* The same run with a flaky transport (any iteration of any call may fail in
\* any way) and batches of up to two posts.
InitFlakyRun ==
  InitWith({AbsentFile},
           Environment({Post("A", 1, TRUE, "none", 100), Post("B", 2, TRUE, "valid", 100),
                        Post("B", 2, FALSE, "invalid", 100)},
                       2, MaxFaults, 0, FALSE))

SpecFlakyRun == InitFlakyRun /\ [][NextRun]_vars /\ WF_vars(NextRun)

\* ------------------------------------------------- a bot with short backoff
\* TelegramNewsBot(token, channel, retry_delay=short_retry_delay): every
\* backoff is clamped to min_delay, so ten failures of get_me() fit into
\* connection_error_window and _check_connection reaches its pause.  The
\* transport fails in get_me() or with a NetworkError.
NextDegraded ==
  \/ FetchPosts
  \/ SkipProcessed
  \/ StartSend
  \/ EndBatch
  \/ AttemptPause
  \/ AttemptProbeFails
  \/ AttemptSucceeds
  \/ AttemptNetworkError
  \/ RetriesExhausted

InitDegraded ==
  InitWith({AbsentFile},
           [Environment({Post("A", 1, TRUE, "none", 100), Post("B", 2, TRUE, "none", 100),
                         Post("C", 3, TRUE, "none", 100)},
                        MaxBatch, 2 * MaxFaults + 1, 0, FALSE)
            EXCEPT !.retry_delay = short_retry_delay])

SpecDegraded == InitDegraded /\ [][NextDegraded]_vars

\* ------------------------------------------------------------ cancellation
\* asyncio.run cancels the task of run(): CancelledError is raised at the
\* await the task is suspended in.  It is no Exception, so no except clause
\* of the bot or the monitor catches it; run() closes the bot and ends.
\* Here the task is in a sleep or in the probe, between two transport sends.
CancelBetweenSends ==
  /\ pc \in {"fetch", "loop", "send"}
  /\ pc' = "cancelled"
  /\ UNCHANGED <<storage_vars, loop_vars, loaded, faults, env_vars, since_success, bot_vars>>

\* The task is suspended in "await method(*args, **kwargs)": the request is
\* on its way, and the transport may or may not have taken the message by
\* the time CancelledError is raised.
CancelInFlight ==
  /\ Invoke
  /\ \E accepted \in BOOLEAN :
       call' = [Step("cancelled", TRUE, 0, 0) EXCEPT !.result = "cancelled",
                                                    !.accepted = accepted]
  /\ pc' = "cancelled"
  /\ UNCHANGED <<storage_vars, loop_vars, loaded, faults, env_vars, since_success, attempt,
                 last_error, connection_errors, rate_limit_errors, last_rate_limit,
                 rl_signals>>

NextShutdown ==
  \/ Next
  \/ CancelBetweenSends
  \/ CancelInFlight

InitShutdown ==
  InitWith({AbsentFile},
           Environment({Post("A", 1, TRUE, "none", 100), Post("B", 2, TRUE, "valid", 100),
                        Post("B", 2, FALSE, "invalid", 100)},
                       MaxFetch, MaxFaults, 0, TRUE))

SpecShutdown == InitShutdown /\ [][NextShutdown]_vars

\* ------------------------------------------- TelegramNewsBot.send_new_posts
\* send_new_posts(new_posts) is called with a list of posts, as given.
SnpCall ==
  /\ pc = "fetch"
  /\ rate_limit_errors < MaxRateLimited
  /\ \E batch \in Batches :
       /\ batch # <<>>
       /\ new_posts' = batch
  /\ attempted' = <<>>
  /\ idx' = 1
  /\ pc' = "loop"
  /\ call' = NoCall
  /\ UNCHANGED <<storage_vars, loaded, faults, env_vars, since_success, attempt, last_error,
                 connection_errors, rate_limit_errors, last_rate_limit, rl_signals>>

SnpItem == pc = "loop" /\ idx <= Len(new_posts)

\* except Exception in the loop body: discard the id, then
\* asyncio.sleep(await self._calculate_delay(1, True)).
SnpExcept(id) ==
  /\ processed_ids' = processed_ids \ {id}
  /\ rate_limit_errors' = CalculateDelayCount(TRUE)
  /\ \E j \in JitterValues :
       since_success' = Slept(since_success, CalculateDelay(1, TRUE, j))

\* post.images raises AttributeError: a Post keeps its images in
\* metadata.images and has no attribute images.
SnpAttributeError ==
  /\ SnpItem
  /\ ~env.attr
  /\ SnpExcept(Current.post.id)
  /\ idx' = idx + 1
  /\ UNCHANGED <<storage_vars, loaded, faults, env, calc, api, new_posts, attempted, pc,
                 attempt, last_error, connection_errors, last_rate_limit, rl_signals, call>>

\* if not post.images: continue.
SnpSkipNoImages ==
  /\ SnpItem
  /\ env.attr
  /\ Current.post.images = "none"
  /\ idx' = idx + 1
  /\ UNCHANGED <<storage_vars, loaded, faults, env_vars, new_posts, attempted, pc,
                 since_success, bot_vars>>

\* if post.id in self._processed_ids: continue.
SnpSkipSent ==
  /\ SnpItem
  /\ env.attr
  /\ Current.post.images # "none"
  /\ Current.post.id \in processed_ids
  /\ idx' = idx + 1
  /\ UNCHANGED <<storage_vars, loaded, faults, env_vars, new_posts, attempted, pc,
                 since_success, bot_vars>>

\* await self.send_message(text=message, images=post.images[:max_images]).
SnpStartSend ==
  /\ SnpItem
  /\ env.attr
  /\ Current.post.images # "none"
  /\ Current.post.id \notin processed_ids
  /\ attempted' = Append(attempted, Current)
  /\ IF Current.post.images = "invalid"
     THEN /\ call' = [SendMessageCall(Current.post) EXCEPT !.result = "False"]
          /\ pc' = "returned"
     ELSE /\ call' = SendMessageCall(Current.post)
          /\ pc' = "send"
  /\ UNCHANGED <<storage_vars, loaded, faults, env_vars, new_posts, idx, since_success,
                 attempt, last_error, connection_errors, rate_limit_errors,
                 last_rate_limit, rl_signals>>

\* send_message has answered: on success remember the id and sleep
\* _calculate_delay(0, self._rate_limit_errors > 0); on failure discard the
\* id and sleep _calculate_delay(1, True).
SnpAfterSend ==
  /\ pc = "returned"
  /\ IF call.result = "True"
     THEN /\ processed_ids' = processed_ids \cup {call.id}
          /\ delivered' = delivered \cup {call.id}
          /\ rate_limit_errors' = CalculateDelayCount(rate_limit_errors > 0)
          /\ \E j \in JitterValues :
               since_success' =
                 Slept(since_success, CalculateDelay(0, rate_limit_errors > 0, j))
     ELSE /\ SnpExcept(call.id)
          /\ UNCHANGED delivered
  /\ idx' = idx + 1
  /\ pc' = "loop"
  /\ UNCHANGED <<processed_posts, posts, db_file, flush_failed, last_mark, io_faults, loaded,
                 faults, env, calc, api, new_posts, attempted, attempt, last_error,
                 connection_errors, last_rate_limit, rl_signals, call>>

\* return sent_post_ids.
SnpReturn ==
  /\ pc = "loop"
  /\ idx > Len(new_posts)
  /\ pc' = "fetch"
  /\ new_posts' = <<>>
  /\ attempted' = <<>>
  /\ idx' = 1
  /\ call' = NoCall
  /\ UNCHANGED <<storage_vars, loaded, faults, env_vars, since_success, attempt, last_error,
                 connection_errors, rate_limit_errors, last_rate_limit, rl_signals>>

\* The steps of a bot whose send_new_posts is called again and again.
\* AttemptPause is left out: ten connection errors need more than MaxFaults.
NextSendNewPosts ==
  \/ SnpCall
  \/ SnpAttributeError
  \/ SnpSkipNoImages
  \/ SnpSkipSent
  \/ SnpStartSend
  \/ SnpAfterSend
  \/ SnpReturn
  \/ AttemptCooldown
  \/ AttemptProbeFails
  \/ AttemptSucceeds
  \/ AttemptReturnsNone
  \/ AttemptRetryAfter
  \/ AttemptNetworkError
  \/ AttemptException
  \/ AttemptTelegramError
  \/ RetriesExhausted

\* The posts are Post objects (no attribute images) or objects of the shape
\* send_new_posts reads (with the attribute).
InitSendNewPosts ==
  \E attr \in BOOLEAN :
    InitWith({AbsentFile},
             [Environment({Post("A", 1, TRUE, "none", 100), Post("B", 2, TRUE, "valid", 100),
                           Post("C", 3, TRUE, "invalid", 100)},
                          MaxFetch, MaxFaults, 0, TRUE)
              EXCEPT !.entry = "send_new_posts", !.attr = attr])

SpecSendNewPosts == InitSendNewPosts /\ [][NextSendNewPosts]_vars

\* ------------------------------------------------ PostStorage, called directly
StorageIds == {"A", "B"}
CreatedAts == {NoDate, CreatedAt(1, FALSE), CreatedAt(5, FALSE), CreatedAt(1, TRUE)}
Cutoffs == {3, 5}

monitor_vars == <<pc, loop_vars, loaded, faults, env, since_success, bot_vars,
                  processed_ids, calc>>

\* self._save_data() with the sets as they will be.
save_data(S, P) ==
  \E out \in SaveData(db_file, S, P, io_faults > 0) :
    /\ db_file' = out.file
    /\ flush_failed' = (flush_failed \/ ~out.ok)
    /\ io_faults' = IF out.ok THEN io_faults ELSE io_faults - 1

ApiCall(op, id, calls, cutoff) ==
  [op |-> op, id |-> id, calls |-> calls, cutoff |-> cutoff,
   before |-> processed_posts, stored |-> posts]

\* storage.save_post(post): self.posts[post.id] = post; _save_data().
SavePost ==
  \E id \in StorageIds, c \in CreatedAts :
    LET P == [i \in DOMAIN posts \cup {id} |-> IF i = id THEN c ELSE posts[i]]
    IN  /\ posts' = P
        /\ save_data(processed_posts, P)
        /\ api' = ApiCall("save_post", id, 1, 0)
        /\ UNCHANGED <<processed_posts, delivered, last_mark, monitor_vars>>

\* storage.mark_as_processed(id); calls counts the calls in a row for this id.
MarkAsProcessed ==
  \E id \in StorageIds :
    /\ mark_as_processed(id)
    /\ api' = ApiCall("mark", id, IF api.op = "mark" /\ api.id = id THEN 2 ELSE 1, 0)
    /\ UNCHANGED <<delivered, monitor_vars>>

\* post.created_at < cutoff_date, for a created_at that is not None.
OlderThan(c, cutoff) == c.day < cutoff

\* The comparison of an offset-aware created_at with the naive cutoff_date
\* raises TypeError while old_post_ids is built.
CleanupRaises == \E id \in DOMAIN posts : posts[id].set /\ posts[id].aware

\* storage.cleanup_old_posts(days) with cutoff = datetime.now() - days: the
\* old posts leave self.posts and processed_posts, then _save_data(); an
\* exception is logged and leaves everything as it was.
CleanupOldPosts ==
  \E cutoff \in Cutoffs :
    /\ IF CleanupRaises
       THEN UNCHANGED <<processed_posts, posts, db_file, flush_failed, io_faults>>
       ELSE LET old == {id \in DOMAIN posts : posts[id].set /\ OlderThan(posts[id], cutoff)}
                P == [i \in DOMAIN posts \ old |-> posts[i]]
            IN  /\ posts' = P
                /\ processed_posts' = processed_posts \ old
                /\ save_data(processed_posts \ old, P)
    /\ api' = ApiCall("cleanup", "", 1, cutoff)
    /\ UNCHANGED <<delivered, last_mark, monitor_vars>>

\* storage.close(): _save_data().
Close ==
  /\ save_data(processed_posts, posts)
  /\ api' = ApiCall("close", "", 1, 0)
  /\ UNCHANGED <<processed_posts, posts, delivered, last_mark, monitor_vars>>

\* PostStorage(db_path) is constructed again on the same file.
Reload ==
  /\ processed_posts' = LoadData(db_file)
  /\ posts' = LoadPosts(db_file)
  /\ api' = ApiCall("reload", "", 1, 0)
  /\ last_mark' = NoMark
  /\ UNCHANGED <<db_file, flush_failed, io_faults, delivered, monitor_vars>>

NextStorage ==
  \/ SavePost
  \/ MarkAsProcessed
  \/ CleanupOldPosts
  \/ Close
  \/ Reload

InitStorage == InitWith({AbsentFile}, Environment({}, 0, 0, 0, FALSE))

SpecStorage == InitStorage /\ [][NextStorage]_vars

\* ------------------------------------------------------ the delay functions
\* await self._calculate_delay(a, is_rate_limit) on a fresh bot.
ComputeDelay ==
  \E a \in 0 .. MaxAttempt, is_rate_limit \in BOOLEAN, j \in JitterRange :
    /\ is_rate_limit => rate_limit_errors < MaxRateLimited
    /\ calc' = [fn |-> "_calculate_delay", attempt |-> a, is_rate_limit |-> is_rate_limit,
                jitter |-> j, delay |-> CalculateDelay(a, is_rate_limit, j)]
    /\ rate_limit_errors' = CalculateDelayCount(is_rate_limit)
    /\ UNCHANGED <<storage_vars, loop_vars, loaded, env, api, processed_ids, faults, pc, since_success,
                   attempt, last_error, connection_errors, last_rate_limit, rl_signals, call>>

\* RetryHandler().calculate_delay(a).
ComputeHandlerDelay ==
  \E a \in 0 .. MaxAttempt, j2 \in HandlerJitterRange :
    /\ calc' = [fn |-> "calculate_delay", attempt |-> a, is_rate_limit |-> FALSE,
                jitter |-> j2, delay |-> HandlerDelay2(a, j2)]
    /\ UNCHANGED <<storage_vars, loop_vars, loaded, env, api, processed_ids, faults, pc, since_success,
                   bot_vars>>

NextDelay == ComputeDelay \/ ComputeHandlerDelay

InitDelay ==
  InitWith({AbsentFile}, Environment({}, 0, 0, 0, FALSE))

SpecDelay == InitDelay /\ [][NextDelay]_vars

\* ------------------------------------------------------------ properties
Range(s) == {s[i] : i \in 1 .. Len(s)}

\* C1  Effectively-once delivery: an id send_message returned True for is in
\* processed_posts, and every send_message call that is under way or has
\* failed is for an id that has not been delivered in this process.
C1_EffectivelyOnce ==
  /\ delivered \subseteq processed_posts
  /\ (call.id # "" /\ call.result # "True") => call.id \notin delivered

\* C1 witness: a batch held a delivered id twice; it was sent once and the
\* second entry was skipped.
C1_DuplicateSkipped ==
  /\ pc = "loop"
  /\ Len(new_posts) = 2
  /\ idx = 3
  /\ new_posts[1].post.id = new_posts[2].post.id
  /\ new_posts[1].post.id \in delivered
  /\ Len(attempted) = 1

\* C2  No double delivery within a batch: at most one send_message call is
\* made for each id of a batch, whatever its outcome.
C2_OneSendPerId ==
  \A i, j \in 1 .. Len(attempted) :
    attempted[i].post.id = attempted[j].post.id => i = j

\* C3  Partial-batch failure isolation: a failed send leaves the id out of
\* processed_posts, and the loop goes on: every entry the loop has passed
\* was sent or skipped as processed, and a next entry is always taken.
C3_FailureIsolated ==
  /\ call.result = "False" => call.id \notin processed_posts
  /\ pc = "loop" =>
       \A i \in 1 .. Len(new_posts) :
         i < idx => new_posts[i] \in Range(attempted) \/ is_processed(new_posts[i].post.id)
  /\ (pc = "loop" /\ idx <= Len(new_posts)) => ENABLED (StartSend \/ SkipProcessed)

\* C3 witness: batch [X, Y, Z], the send of Y failed, X and Z are stored.
C3_MiddleFailed ==
  /\ pc = "loop"
  /\ idx = 4
  /\ Len(attempted) = 3
  /\ Cardinality({attempted[i].post.id : i \in 1 .. 3}) = 3
  /\ processed_posts = {attempted[1].post.id, attempted[3].post.id}
  /\ call.id = attempted[3].post.id
  /\ call.result = "True"

\* C4  Crash-recovery round trip: with working file I/O the file always
\* loads as the set read at construction plus the ids delivered since, and
\* no post whose id was read at construction is sent.
C4_RoundTrip ==
  /\ ~flush_failed => LoadData(db_file) = loaded \cup delivered
  /\ \A i \in 1 .. Len(attempted) : attempted[i].post.id \notin loaded

\* C4 witness: the store started as {A}, B was sent and delivered, and the
\* file now loads as {A, B}.
C4_Reloadable ==
  /\ loaded = {"A"}
  /\ delivered = {"B"}
  /\ Len(attempted) = 1
  /\ LoadData(db_file) = {"A", "B"}

\* C5  Retry exhaustion: a call in which every invocation raised an ordinary
\* error and which has ended in failure invoked the method max_retries times.
C5_InvokedMaxRetries ==
  (/\ call.result = "False"
   /\ call.invocations > 0
   /\ call.ordinary = call.invocations)
  => call.invocations = max_retries

\* C6  Ordering: when every post to send carries a date, the sends are made
\* in ascending date order.
C6_AscendingDates ==
  (\A i \in 1 .. Len(new_posts) : new_posts[i].post.date # 0)
  => \A i, j \in 1 .. Len(attempted) :
       i < j => attempted[i].post.date <= attempted[j].post.date

\* C6 witness: fetched as [T3, T1, T2], sent as T1, T2, T3.
C6_Reordered ==
  /\ Len(attempted) = 3
  /\ <<attempted[1].pos, attempted[2].pos, attempted[3].pos>> = <<2, 3, 1>>
  /\ <<attempted[1].post.date, attempted[2].post.date, attempted[3].post.date>> = <<1, 2, 3>>

\* C7  Posts without a date are sent after all dated posts of the batch and
\* keep their fetched order among themselves.
C7_DatelessLast ==
  \A i, j \in 1 .. Len(attempted) :
    i < j =>
      /\ ~(attempted[i].post.date = 0 /\ attempted[j].post.date # 0)
      /\ (attempted[i].post.date = 0 /\ attempted[j].post.date = 0)
           => attempted[i].pos < attempted[j].pos

\* C8  A success ends the retry loop: with a passing probe and k ordinary
\* errors before the truthy result, the method was invoked k + 1 times with
\* k sleeps, and the call is over.
C8_SuccessEndsLoop ==
  /\ call.result = "True" => pc # "send"
  /\ (/\ call.result = "True"
      /\ call.skipped = 0
      /\ call.ordinary = call.invocations - 1)
     => /\ call.sleeps = call.ordinary
        /\ call.invocations <= max_retries

\* C8 witness: one NetworkError or Exception, then success: two invocations,
\* one sleep.
C8_OneRetry ==
  /\ call.result = "True"
  /\ call.skipped = 0
  /\ call.ordinary = 1
  /\ call.invocations = 2
  /\ call.sleeps = 1

\* C9  A TelegramError short-circuits: the call is over at once with
\* send_message False, no sleep follows the error (the only sleeps are the
\* one of each earlier iteration) and the id is not stored.
C9_ShortCircuit ==
  call.kind = "TelegramError"
  => /\ call.result = "False"
     /\ pc # "send"
     /\ call.sleeps = call.invocations + call.skipped - 1
     /\ call.id \notin processed_posts

\* C9 witness: the first invocation raised TelegramError: one invocation,
\* no sleep, failure.
C9_FirstInvocation ==
  /\ call.kind = "TelegramError"
  /\ call.invocations = 1
  /\ call.sleeps = 0
  /\ call.result = "False"

\* C10  Rate-limit cooldown: no iteration that begins with three RetryAfter
\* responses inside the window goes past _check_rate_limit.
C10_CooldownAfterThree ==
  call.signals >= rate_limit_threshold => call.kind \in {"start", "cooldown"}

\* C11  Backoff bounds: _calculate_delay returns a delay in
\* [min_delay, max_delay] for every attempt, failure class and jitter, and
\* RetryHandler.calculate_delay one in its own [min_delay, max_delay].
C11_DelayInBounds ==
  /\ calc.fn = "_calculate_delay" => (min_delay <= calc.delay /\ calc.delay <= max_delay)
  /\ calc.fn = "calculate_delay" =>
       (2 * handler_min_delay <= calc.delay /\ calc.delay <= 2 * handler_max_delay)

\* C11 witness: the rate-limited delay of attempt 10 with the largest jitter
\* is cut to max_delay.
C11_UpperClamp ==
  /\ calc.fn = "_calculate_delay"
  /\ calc.attempt = 10
  /\ calc.is_rate_limit
  /\ calc.jitter = jitter_range
  /\ calc.delay = max_delay

\* C12  Idempotence of dedupe: after mark_as_processed(id) was called twice
\* in a row, id is processed, the status of every other id is as before the
\* second call, and the id list of the file holds id exactly once.
C12_MarkIdempotent ==
  (api.op = "mark" /\ api.calls = 2)
  => /\ is_processed(api.id)
     /\ processed_posts = api.before
     /\ CopiesIn(api.id, db_file.ids) = 1

\* C12 witness: A was marked twice while B is stored but not processed.
C12_MarkedTwice ==
  /\ api.op = "mark"
  /\ api.calls = 2
  /\ api.id = "A"
  /\ processed_posts = {"A"}
  /\ "B" \in DOMAIN posts

\* C13  Delivery records are never deleted: no step takes an id out of
\* processed_posts or out of the id list of the file.
C13_NeverDeleted ==
  [][/\ processed_posts \subseteq processed_posts'
     /\ LoadData(db_file) \subseteq LoadData(db_file')]_vars

\* C14  cleanup_old_posts: afterwards no stored post older than the cutoff
\* is processed, and every processed stored post newer than it still is.
C14_CleanupByAge ==
  api.op = "cleanup"
  => \A id \in DOMAIN api.stored :
       LET c == api.stored[id]
       IN  /\ (c.set /\ c.day < api.cutoff) => ~is_processed(id)
           /\ (c.set /\ c.day > api.cutoff /\ id \in api.before) => is_processed(id)

\* C15  An item whose image URLs are all invalid is delivered as text: a
\* send_message call for such an item does not end in failure without an
\* invocation of a transport method.
C15_InvalidImagesSentAsText ==
  (Len(attempted) > 0 /\ attempted[Len(attempted)].post.images = "invalid"
   /\ call.id = attempted[Len(attempted)].post.id)
  => ~(call.result = "False" /\ call.invocations = 0 /\ call.skipped = 0)

\* C16  An item without images is sent as text and not skipped: every item
\* without images that the loop has passed was handed to send_message unless
\* it was already delivered, and a call for such an item uses the text method.
C16_ZeroMediaSentAsText ==
  /\ pc = "loop" =>
       \A i \in 1 .. Len(new_posts) :
         (i < idx /\ new_posts[i].post.images = "none")
         => \/ new_posts[i] \in Range(attempted)
            \/ is_processed(new_posts[i].post.id)
            \/ new_posts[i].post.id \in processed_ids
  /\ \A i \in 1 .. Len(attempted) :
       (attempted[i].post.images = "none" /\ call.id = attempted[i].post.id)
       => call.method = "send_message"

\* C17  A text longer than max_message_length is delivered in more than one
\* transport call: a text send of such a text that succeeded without a retry
\* invoked the transport method more than once.
C17_LongTextSplit ==
  (/\ call.method = "send_message"
   /\ call.length > max_message_length
   /\ call.result = "True"
   /\ call.sleeps = 0)
  => call.invocations > 1

\* C18  A file error while mark_as_processed flushes the store is reported
\* to the caller: after a failed flush the method has not simply returned None.
C18_FlushErrorReported ==
  last_mark.flushed = "failed" => last_mark.answer # "None"

\* C19  The in-memory set stays authoritative: every id delivered in this
\* process is processed whether or not its flush failed, the only send for
\* a delivered id is the one that delivered it, and after a flush that
\* succeeded the file holds the whole in-memory set.
C19_MemoryAuthoritative ==
  /\ delivered \subseteq processed_posts
  /\ call.id \in delivered => call.result = "True"
  /\ last_mark.flushed = "ok" => LoadData(db_file) = processed_posts

\* C19 witness: the flush for the first delivered id failed, the flush for
\* the second succeeded, and the file holds both.
C19_LaterFlushWritesAll ==
  /\ flush_failed
  /\ last_mark.flushed = "ok"
  /\ delivered = {"A", "B"}
  /\ LoadData(db_file) = {"A", "B"}

\* C20  Cancellation safety: cancellation never stops the pipeline with an
\* item the transport has accepted and whose id is missing from the store.
C20_NoAcceptedUnmarked ==
  ~(/\ pc = "cancelled"
    /\ call.accepted
    /\ call.id \notin processed_posts)

\* C21  The monitor never stops because of a failed cycle: run() is always
\* in its loop, and whatever happened in a cycle it comes back to the call of
\* process_new_posts again and again.
C21_AlwaysAnotherCycle ==
  /\ [](pc \in {"fetch", "loop", "send"})
  /\ []<>(pc = "fetch")

\* C21 witness: every transport fault of the run has been spent on sends
\* that failed, nothing was delivered, and a new cycle has fetched posts.
C21_CycleAfterFailure ==
  /\ pc = "loop"
  /\ idx = 1
  /\ Len(new_posts) > 0
  /\ faults = 0
  /\ delivered = {}

\* C22  RetryAfter answers do not use up the retry budget: a call that got
\* r >= 1 RetryAfter answers, otherwise only ordinary errors, and failed,
\* invoked the method max_retries times for the ordinary errors and
\* max_retries + r times in all.
C22_RateLimitOutsideBudget ==
  (/\ call.result = "False"
   /\ call.skipped = 0
   /\ call.rate_limited >= 1
   /\ call.ordinary >= 1
   /\ call.ordinary + call.rate_limited = call.invocations)
  => /\ call.ordinary = max_retries
     /\ call.invocations = max_retries + call.rate_limited

\* C23  A successful transport call does not reset the rate-limit counter:
\* the step in which _send_with_retry gets its truthy result leaves
\* _rate_limit_errors as it was, while the window of the latest RetryAfter
\* has not elapsed.
C23_SuccessKeepsRateLimitCount ==
  [][(call.result = "pending" /\ call'.result = "True" /\ last_rate_limit = "recent")
     => rate_limit_errors' = rate_limit_errors]_vars

\* C24  _calculate_delay is pure with respect to the health state: a step
\* that computes a delay leaves _rate_limit_errors, _connection_errors and
\* the two timestamps as they were.
C24_DelayComputationPure ==
  [][calc'.fn = "_calculate_delay"
     => UNCHANGED <<rate_limit_errors, connection_errors, since_success, last_rate_limit>>]_vars


\* C25: whenever an attempt of _send_with_retry begins with _connection_errors
\* at max_connection_errors or more and the last success less than
\* connection_error_window seconds ago, that attempt is the pause: it sleeps
\* min(connection_wait_cap, connection_wait_step * _connection_errors)
\* seconds without probing or invoking, and _connection_errors is 0 after it.
C25_DegradedPause ==
  [][(InLoop /\ ~RateLimitCooldown /\ ConnectionPause)
     => /\ call'.kind = "pause"
        /\ call'.wait = Min(connection_wait_cap, connection_wait_step * connection_errors)
        /\ call'.invocations = call.invocations
        /\ connection_errors' = 0]_vars

C25_PauseTaken ==
  /\ call.kind = "pause"
  /\ call.wait = connection_wait_cap
  /\ connection_errors = 0
  /\ call.invocations = 0


\* C26: when the first send of a cycle begins, run() has just slept
\* CHECK_INTERVAL seconds without any transport call, so the 300 s window has
\* elapsed without a new error: _connection_errors is 0 when _check_connection
\* reads it, and _rate_limit_errors is 0 when the window of the last
\* RetryAfter has elapsed too.
C26_ExpiredWindowResetsCounters ==
  (/\ pc = "send" /\ attempt = 0 /\ call.kind = "start"
   /\ Len(attempted) = 1
   /\ since_success >= connection_error_window)
  => /\ connection_errors = 0
     /\ last_rate_limit = "elapsed" => rate_limit_errors = 0


\* C27: an iteration of _send_with_retry in which a health check mandates a
\* wait (the rate-limit cooldown or the connection pause) still invokes the
\* method before it ends.
C27_GateInvokesSameAttempt ==
  [][(attempt' = attempt + 1 /\ call'.kind \in {"cooldown", "pause"})
     => call'.invocations = call.invocations + 1]_vars


\* C28: in process_new_posts the step in which send_message answers (True or
\* False, whatever ended the call) also sleeps inter_item_sleep seconds, so
\* the clock has advanced by that sleep when the next post's send starts: the
\* age of the last success is the sleep added to 0 when the answering
\* iteration invoked the method (get_me() had just passed), else to the age
\* before; and a send that is not the first of its batch never starts less
\* than inter_item_sleep seconds after the last success.
C28_InterItemSleep ==
  /\ [][(call' # call /\ call'.result \in {"True", "False"})
        => since_success' =
             Slept(IF call'.id = call.id /\ call'.invocations = call.invocations + 1
                   THEN 0 ELSE since_success,
                   inter_item_sleep)]_vars
  /\ []((pc = "send" /\ call.kind = "start" /\ Len(attempted) > 1)
        => since_success >= inter_item_sleep)

C28_SecondSendAfterSleep ==
  /\ pc = "send" /\ call.kind = "start"
  /\ Len(attempted) = 2
  /\ attempted[1].post.id \in delivered
  /\ since_success = inter_item_sleep


C30_FailingProbeSpendsBudget ==
  /\ [][(call'.kind = "probe" /\ call'.skipped = call.skipped + 1)
        => /\ connection_errors' = connection_errors + 1
           /\ call'.invocations = call.invocations]_vars
  /\ []((call.kind = "probe" /\ call.skipped = max_retries /\ pc # "send")
        => /\ call.invocations = 0
           /\ call.result = "False"
           /\ ~call.raised
           /\ connection_errors >= max_retries
           /\ call.id \notin processed_posts
           /\ call.id \notin delivered)

C30_AllProbesFailed ==
  /\ pc = "loop"
  /\ call.kind = "probe"
  /\ call.skipped = max_retries
  /\ call.invocations = 0
  /\ call.result = "False"
  /\ connection_errors = max_retries

=============================================================================
